---- MODULE Spec2Model ----
(***************************************************************************)
(* Model of the MCP stdio server: the line loop of server.rs (run), the    *)
(* request and notification dispatchers (handle_request,                   *)
(* handle_notification), the handlers and error constructors of            *)
(* handlers.rs, the serde shapes of types.rs and the response writer of    *)
(* stdio.rs.                                                               *)
(***************************************************************************)
EXTENDS Integers, Sequences, FiniteSets, TLC

(***************************************************************************)
(* Bound of the exploration: how many input lines one run receives.        *)
(***************************************************************************)
MaxLines == 2

(***************************************************************************)
(* serde_json::Value.  Object members are a function from key to value.    *)
(***************************************************************************)
JNull == [t |-> "null"]
JBool(b) == [t |-> "bool", b |-> b]
JNum(n) == [t |-> "num", n |-> n]
JStr(s) == [t |-> "str", s |-> s]
JArr(a) == [t |-> "arr", a |-> a]
JObj(f) == [t |-> "obj", f |-> f]

EmptyObj == JObj(<<>>)

\* Value::get(key): Some(member) for an object holding the key, None otherwise
\* (None also for every value that is not an object).
Has(v, key) == v.t = "obj" /\ key \in DOMAIN v.f

Get(v, key) == v.f[key]

\* Result<T, E>
Ok(x) == [ok |-> TRUE, val |-> x]

Err(e) == [ok |-> FALSE, err |-> e]

\* Option<T>
None == [some |-> FALSE]

Some(x) == [some |-> TRUE, val |-> x]

\* format!(fmt, args...): a String built from a template and its arguments
Format(fmt, args) == [t |-> "str", fmt |-> fmt, args |-> args]

(***************************************************************************)
(* serde_json::Error::to_string() for the failures of from_value.          *)
(***************************************************************************)
\* de::Unexpected as displayed: what the decoder found (serde_json prints a
\* JSON null as "null"); the back quote the text puts on either side of a
\* value or of a field name is written U+0060 in the templates
Unexpected(v) ==
    IF v.t = "null" THEN JStr("null")
    ELSE IF v.t = "bool" THEN Format("boolean U+0060{}U+0060", <<v>>)
    ELSE IF v.t = "num" THEN Format("integer U+0060{}U+0060", <<v>>)
    ELSE IF v.t = "str" THEN Format("string {:?}", <<v>>)
    ELSE IF v.t = "arr" THEN JStr("sequence")
    ELSE JStr("map")

InvalidType(v, expected) ==
    Format("invalid type: {}, expected {}", <<Unexpected(v), expected>>)

MissingField(key) == Format("missing field U+0060{}U+0060", <<JStr(key)>>)

InvalidLength(n, expected) ==
    Format("invalid length {}, expected {}", <<JNum(n), expected>>)

(***************************************************************************)
(* types.rs: the Deserialize shapes.  A derived struct decodes from an     *)
(* object or from an array holding its fields in declaration order.  From  *)
(* an object, serde_json hands over the members in the sorted order of     *)
(* their keys (Map is a BTreeMap): the value of each known key is decoded  *)
(* when it is visited, unknown keys are ignored, and only after the last   *)
(* member is the first absent field, in declaration order, reported.       *)
(***************************************************************************)
Range(seq) == { seq[i] : i \in 1..Len(seq) }

Index(seq, x) == CHOOSE i \in 1..Len(seq) : seq[i] = x

\* the elements of seq that are in set, in the order of seq
Keep(seq, set) == LET In(x) == x \in set IN SelectSeq(seq, In)

\* the fields of a struct for which v gives a value: the known keys of an
\* object, the leading fields of an array
Fields(v, declared) ==
    IF v.t = "obj" THEN { k \in Range(declared) : Has(v, k) }
    ELSE IF v.t = "arr" THEN { k \in Range(declared) : Index(declared, k) <= Len(v.a) }
    ELSE {}

\* the value v gives for a field
Given(v, declared, k) == IF v.t = "obj" THEN Get(v, k) ELSE v.a[Index(declared, k)]

\* String
DecodeString(x) == IF x.t = "str" THEN Ok(x.s) ELSE Err(InvalidType(x, JStr("a string")))

\* Option<Value>: JSON null is None
DecodeOptionValue(x) == Ok(IF x = JNull THEN None ELSE Some(x))

\* the fields are visited in the order of keys; res holds the result of
\* decoding the value given for each; the first failure is the outcome,
\* and without one the outcome is `otherwise`
RECURSIVE Visit(_, _, _)
Visit(keys, res, otherwise) ==
    IF keys = <<>> THEN otherwise
    ELSE IF ~ res[Head(keys)].ok THEN res[Head(keys)]
    ELSE Visit(Tail(keys), res, otherwise)

\* derived Visitor::visit_map: optional are the fields of an Option type,
\* value the struct built from the decoded fields
visit_map(sorted, declared, optional, res, value) ==
    LET absent == Keep(declared, (Range(declared) \ DOMAIN res) \ optional)
    IN Visit(Keep(sorted, DOMAIN res), res,
             IF absent # <<>> THEN Err(MissingField(Head(absent))) ELSE Ok(value))

\* derived Visitor::visit_seq, then the check of serde_json that the array
\* holds no further element
visit_seq(a, name, declared, res, value) ==
    Visit(Keep(declared, DOMAIN res), res,
          IF Len(a) < Len(declared)
          THEN Err(InvalidLength(Len(a), Format("struct {} with {} elements",
                                                <<JStr(name), JNum(Len(declared))>>)))
          ELSE IF Len(a) > Len(declared)
          THEN Err(InvalidLength(Len(a), JStr("fewer elements in array")))
          ELSE Ok(value))

\* Deserializer::deserialize_struct on a Value
deserialize_struct(v, name, sorted, declared, optional, res, value) ==
    IF v.t = "obj" THEN visit_map(sorted, declared, optional, res, value)
    ELSE IF v.t = "arr" THEN visit_seq(v.a, name, declared, res, value)
    ELSE Err(InvalidType(v, Format("struct {}", <<JStr(name)>>)))

\* struct Implementation { name: String, version: String }
Implementation(v) ==
    LET declared == <<"name", "version">>
        res == [k \in Fields(v, declared) |-> DecodeString(Given(v, declared, k))]
    IN deserialize_struct(v, "Implementation", <<"name", "version">>, declared, {}, res,
                          [name |-> res["name"].val, version |-> res["version"].val])

\* struct ClientCapabilities {}
ClientCapabilities(v) ==
    deserialize_struct(v, "ClientCapabilities", <<>>, <<>>, {}, <<>>, "ClientCapabilities")

\* struct InitializeRequestParams { protocol_version: String,
\*     capabilities: ClientCapabilities, client_info: Implementation }
\* with rename_all = "camelCase"
InitializeRequestParams(v) ==
    LET declared == <<"protocolVersion", "capabilities", "clientInfo">>
        res == [k \in Fields(v, declared) |->
                   IF k = "protocolVersion" THEN DecodeString(Given(v, declared, k))
                   ELSE IF k = "capabilities" THEN ClientCapabilities(Given(v, declared, k))
                   ELSE Implementation(Given(v, declared, k))]
    IN deserialize_struct(v, "InitializeRequestParams",
                          <<"capabilities", "clientInfo", "protocolVersion">>,
                          declared, {}, res,
                          [protocol_version |-> res["protocolVersion"].val,
                           capabilities |-> res["capabilities"].val,
                           client_info |-> res["clientInfo"].val])

\* struct CallToolRequestParams { name: String, arguments: Value }
CallToolRequestParams(v) ==
    LET declared == <<"name", "arguments">>
        res == [k \in Fields(v, declared) |->
                   IF k = "name" THEN DecodeString(Given(v, declared, k))
                   ELSE Ok(Given(v, declared, k))]
    IN deserialize_struct(v, "CallToolRequestParams", <<"arguments", "name">>,
                          declared, {}, res,
                          [name |-> res["name"].val, arguments |-> res["arguments"].val])

\* struct InitializedNotificationParams {}
InitializedNotificationParams(v) ==
    deserialize_struct(v, "InitializedNotificationParams", <<>>, <<>>, {}, <<>>,
                       "InitializedNotificationParams")

\* params: Option<Value> is None when the field is given no value
Params(res) == IF "params" \in DOMAIN res THEN res["params"].val ELSE None

\* mutation: a jsonrpc other than "2.0" fails the decode
GenericRequest_ChecksVersion(v) ==
    LET declared == <<"jsonrpc", "id", "method", "params">>
        res == [k \in Fields(v, declared) |->
                   IF k = "jsonrpc"
                   THEN IF Given(v, declared, k) = JStr("2.0") THEN Ok("2.0")
                        ELSE Err(Format("invalid value: {}, expected {}",
                                        <<Unexpected(Given(v, declared, k)), JStr("2.0")>>))
                   ELSE IF k = "method" THEN DecodeString(Given(v, declared, k))
                   ELSE IF k = "params" THEN DecodeOptionValue(Given(v, declared, k))
                   ELSE Ok(Given(v, declared, k))]
    IN deserialize_struct(v, "GenericRequest", <<"id", "jsonrpc", "method", "params">>,
                          declared, {"params"}, res,
                          [jsonrpc |-> res["jsonrpc"].val, id |-> res["id"].val,
                           method |-> res["method"].val, params |-> Params(res)])

\* struct GenericRequest { jsonrpc: String, id: Value, method: String,
\*                         params: Option<Value> }
GenericRequest(v) ==
    LET declared == <<"jsonrpc", "id", "method", "params">>
        res == [k \in Fields(v, declared) |->
                   IF k \in {"jsonrpc", "method"} THEN DecodeString(Given(v, declared, k))
                   ELSE IF k = "params" THEN DecodeOptionValue(Given(v, declared, k))
                   ELSE Ok(Given(v, declared, k))]
    IN deserialize_struct(v, "GenericRequest", <<"id", "jsonrpc", "method", "params">>,
                          declared, {"params"}, res,
                          [jsonrpc |-> res["jsonrpc"].val, id |-> res["id"].val,
                           method |-> res["method"].val, params |-> Params(res)])

\* struct GenericNotification { jsonrpc: String, method: String,
\*                              params: Option<Value> }
GenericNotification(v) ==
    LET declared == <<"jsonrpc", "method", "params">>
        res == [k \in Fields(v, declared) |->
                   IF k = "params" THEN DecodeOptionValue(Given(v, declared, k))
                   ELSE DecodeString(Given(v, declared, k))]
    IN deserialize_struct(v, "GenericNotification", <<"jsonrpc", "method", "params">>,
                          declared, {"params"}, res,
                          [jsonrpc |-> res["jsonrpc"].val, method |-> res["method"].val,
                           params |-> Params(res)])

(***************************************************************************)
(* constants.rs is not part of the available sources; the protocol version *)
(* is the fixed string the server advertises.                              *)
(***************************************************************************)
SUPPORTED_PROTOCOL_VERSION == "2024-11-05"

(***************************************************************************)
(* server.rs: ServerState, built once at the start of run and only read.   *)
(***************************************************************************)
ServerState ==
    [server_info |-> [name |-> "rust-mcp-stdio-refactored", version |-> "0.1.1"],
     server_capabilities |-> [tools |-> Some(EmptyObj), resources |-> Some(EmptyObj),
                              prompts |-> Some(EmptyObj)]]

(***************************************************************************)
(* handlers.rs: the method handlers.  Each returns Result<T>.              *)
(***************************************************************************)
\* mutation: the client's protocol version is echoed back
handle_initialize_echo_version(params, server_capabilities, server_info) ==
    Ok([protocol_version |-> params.protocol_version,
        capabilities |-> server_capabilities,
        server_info |-> server_info,
        instructions |-> None])

handle_initialize(params, server_capabilities, server_info) ==
    Ok([protocol_version |-> SUPPORTED_PROTOCOL_VERSION,
        capabilities |-> server_capabilities,
        server_info |-> server_info,
        instructions |-> None])

handle_initialized(params) == Ok("unit")

handle_list_tools ==
    Ok([tools |-> << [name |-> "dummy_tool_from_rust",
                      description |-> Some("A simple test tool."),
                      input_schema |-> JObj("type" :> JStr("object")
                                            @@ "properties" :> EmptyObj)] >>])

handle_list_resources ==
    Ok([resources |-> << [uri |-> "mcp://dummy/resource/1",
                          name |-> "Dummy Resource",
                          description |-> Some("A test resource from Rust")] >>])

handle_list_prompts ==
    Ok([prompts |-> << [name |-> "dummy_prompt",
                        description |-> Some("A test prompt from Rust"),
                        arguments |-> None] >>])

\* mutation: a tool the server does not implement is a handler failure
handle_call_tool_unknown_fails(params) ==
    IF params.name = "dummy_tool_from_rust"
    THEN Ok([content |-> << [type_ |-> "text",
                             text |-> Some(Format("dummy_tool_from_rust executed successfully by Rust! Received args: {}",
                                                  <<params.arguments>>))] >>,
             is_error |-> None])
    ELSE Err(Format("Error: Tool '{}' not implemented by this server.",
                    <<JStr(params.name)>>))

handle_call_tool(params) ==
    IF params.name = "dummy_tool_from_rust"
    THEN Ok([content |-> << [type_ |-> "text",
                             text |-> Some(Format("dummy_tool_from_rust executed successfully by Rust! Received args: {}",
                                                  <<params.arguments>>))] >>,
             is_error |-> None])
    ELSE Ok([content |-> << [type_ |-> "text",
                             text |-> Some(Format("Error: Tool '{}' not implemented by this server.",
                                                  <<JStr(params.name)>>))] >>,
             is_error |-> Some(TRUE)])

(***************************************************************************)
(* handlers.rs: the JSON-RPC error constructors.                           *)
(***************************************************************************)
\* mutation: the error response does not carry the id it was given
create_error_response_null_id(id, code, message) ==
    [jsonrpc |-> "2.0", id |-> JNull, error |-> [code |-> code, message |-> message]]

create_error_response(id, code, message) ==
    [jsonrpc |-> "2.0", id |-> id, error |-> [code |-> code, message |-> message]]

\* mutation: an unknown method is reported as an invalid request
method_not_found_error_invalid_request(id, method_name) ==
    create_error_response(id, -32600, Format("Method not found: {}", <<JStr(method_name)>>))

method_not_found_error(id, method_name) ==
    create_error_response(id, -32601, Format("Method not found: {}", <<JStr(method_name)>>))

\* mutation: rejected params are reported as an internal error
invalid_params_error_internal(id, method_name, details) ==
    create_error_response(id, -32603,
                          Format("Invalid params for {}: {}", <<JStr(method_name), details>>))

invalid_params_error(id, method_name, details) ==
    create_error_response(id, -32602,
                          Format("Invalid params for {}: {}", <<JStr(method_name), details>>))

\* mutation: the parse error takes the code of the invalid-params error
parse_error_invalid_params(id, details) ==
    create_error_response(IF id.some THEN id.val ELSE JNull, -32602,
                          Format("Parse error: {}", <<details>>))

\* id: Option<Value>; None becomes Value::Null
parse_error(id, details) ==
    create_error_response(IF id.some THEN id.val ELSE JNull, -32700,
                          Format("Parse error: {}", <<details>>))

(***************************************************************************)
(* types.rs: the Serialize shapes (serde_json::to_value / to_string).      *)
(* Fields are renamed to camelCase; a field marked skip_serializing_if is  *)
(* left out when it is None.                                               *)
(***************************************************************************)
Field(key, opt, val) == IF opt.some THEN key :> val ELSE <<>>

OptionToValue(opt) == IF opt.some THEN opt.val ELSE JNull

ImplementationToValue(i) ==
    JObj("name" :> JStr(i.name) @@ "version" :> JStr(i.version))

ServerCapabilitiesToValue(c) ==
    JObj("tools" :> OptionToValue(c.tools) @@ "resources" :> OptionToValue(c.resources)
         @@ "prompts" :> OptionToValue(c.prompts))

InitializeResultToValue(r) ==
    JObj("protocolVersion" :> JStr(r.protocol_version)
         @@ "capabilities" :> ServerCapabilitiesToValue(r.capabilities)
         @@ "serverInfo" :> ImplementationToValue(r.server_info)
         @@ Field("instructions", r.instructions, JStr(OptionToValue(r.instructions))))

ToolToValue(x) ==
    JObj("name" :> JStr(x.name)
         @@ Field("description", x.description, JStr(OptionToValue(x.description)))
         @@ "inputSchema" :> x.input_schema)

ResourceToValue(x) ==
    JObj("uri" :> JStr(x.uri) @@ "name" :> JStr(x.name)
         @@ Field("description", x.description, JStr(OptionToValue(x.description))))

\* struct PromptArgument { name, description: Option<String>, required: bool }
PromptArgumentToValue(x) ==
    JObj("name" :> JStr(x.name)
         @@ Field("description", x.description, JStr(OptionToValue(x.description)))
         @@ "required" :> JBool(x.required))

PromptToValue(x) ==
    JObj("name" :> JStr(x.name)
         @@ Field("description", x.description, JStr(OptionToValue(x.description)))
         @@ Field("arguments", x.arguments,
                  JArr([i \in 1..Len(OptionToValue(x.arguments)) |->
                           PromptArgumentToValue(OptionToValue(x.arguments)[i])])))

ListToolsResultToValue(r) ==
    JObj("tools" :> JArr([i \in 1..Len(r.tools) |-> ToolToValue(r.tools[i])]))

ListResourcesResultToValue(r) ==
    JObj("resources" :> JArr([i \in 1..Len(r.resources) |-> ResourceToValue(r.resources[i])]))

ListPromptsResultToValue(r) ==
    JObj("prompts" :> JArr([i \in 1..Len(r.prompts) |-> PromptToValue(r.prompts[i])]))

ContentPartToValue(x) ==
    JObj("type" :> JStr(x.type_) @@ Field("text", x.text, OptionToValue(x.text)))

CallToolResultToValue(r) ==
    JObj("content" :> JArr([i \in 1..Len(r.content) |-> ContentPartToValue(r.content[i])])
         @@ Field("isError", r.is_error, JBool(OptionToValue(r.is_error))))

\* struct GenericResponse<T> { jsonrpc, id, result }
GenericResponse(id, result) == [jsonrpc |-> "2.0", id |-> id, result |-> result]

GenericResponseToValue(r) ==
    JObj("jsonrpc" :> JStr(r.jsonrpc) @@ "id" :> r.id @@ "result" :> r.result)

\* struct ErrorData { code: i32, message: String }
ErrorDataToValue(e) == JObj("code" :> JNum(e.code) @@ "message" :> e.message)

\* mutation: an error response also carries a null result
GenericErrorResponseToValue_with_result(r) ==
    JObj("jsonrpc" :> JStr(r.jsonrpc) @@ "id" :> r.id @@ "result" :> JNull
         @@ "error" :> ErrorDataToValue(r.error))

\* struct GenericErrorResponse { jsonrpc, id, error }
GenericErrorResponseToValue(r) ==
    JObj("jsonrpc" :> JStr(r.jsonrpc) @@ "id" :> r.id @@ "error" :> ErrorDataToValue(r.error))

(***************************************************************************)
(* stdio.rs: write_message_newline serialises the message, writes it with  *)
(* a newline and flushes.  io_ok is the outcome of the stream operations;  *)
(* on failure the caller gets Err and no complete line is on the stream.   *)
(***************************************************************************)
\* mutation: the message never reaches the stream although Ok is returned
write_message_newline_dropped(writer, message_json, io_ok) ==
    IF io_ok THEN Ok(writer) ELSE Err("io error")

\* mutation: the message is put in front of what the stream already holds
write_message_newline_in_front(writer, message_json, io_ok) ==
    IF io_ok THEN Ok(<<message_json>> \o writer) ELSE Err("io error")

write_message_newline(writer, message_json, io_ok) ==
    IF io_ok THEN Ok(Append(writer, message_json)) ELSE Err("io error")

(***************************************************************************)
(* server.rs: handle_request, the match on request.method that computes    *)
(* response_result (Ok(result value) or Err(error response)).  `called`    *)
(* names the handler the branch invoked.                                   *)
(***************************************************************************)
response_result(request, server_state) ==
    IF request.method = "initialize" THEN
        IF request.params.some THEN
            LET p == InitializeRequestParams(request.params.val) IN
            IF p.ok THEN
                LET h == handle_initialize(p.val, server_state.server_capabilities,
                                           server_state.server_info) IN
                [called |-> "handle_initialize",
                 res |-> IF h.ok THEN Ok(InitializeResultToValue(h.val))
                         ELSE Err(invalid_params_error(request.id, "initialize", h.err))]
            ELSE [called |-> "none",
                  res |-> Err(invalid_params_error(request.id, "initialize", p.err))]
        ELSE [called |-> "none",
              res |-> Err(invalid_params_error(request.id, "initialize",
                                               JStr("missing params field")))]
    ELSE IF request.method = "tools/list" THEN
        LET h == handle_list_tools IN
        [called |-> "handle_list_tools",
         res |-> IF h.ok THEN Ok(ListToolsResultToValue(h.val))
                 ELSE Err(create_error_response(request.id, -32603,
                          Format("Internal error during tools/list: {}", <<h.err>>)))]
    ELSE IF request.method = "resources/list" THEN
        LET h == handle_list_resources IN
        [called |-> "handle_list_resources",
         res |-> IF h.ok THEN Ok(ListResourcesResultToValue(h.val))
                 ELSE Err(create_error_response(request.id, -32603,
                          Format("Internal error during resources/list: {}", <<h.err>>)))]
    ELSE IF request.method = "prompts/list" THEN
        LET h == handle_list_prompts IN
        [called |-> "handle_list_prompts",
         res |-> IF h.ok THEN Ok(ListPromptsResultToValue(h.val))
                 ELSE Err(create_error_response(request.id, -32603,
                          Format("Internal error during prompts/list: {}", <<h.err>>)))]
    ELSE IF request.method = "tools/call" THEN
        IF request.params.some THEN
            LET p == CallToolRequestParams(request.params.val) IN
            IF p.ok THEN
                LET h == handle_call_tool(p.val) IN
                [called |-> "handle_call_tool",
                 res |-> IF h.ok THEN Ok(CallToolResultToValue(h.val))
                         ELSE Err(create_error_response(request.id, -32603,
                                  Format("Internal error during tools/call: {}", <<h.err>>)))]
            ELSE [called |-> "none",
                  res |-> Err(invalid_params_error(request.id, "tools/call", p.err))]
        ELSE [called |-> "none",
              res |-> Err(invalid_params_error(request.id, "tools/call",
                                               JStr("missing params field")))]
    ELSE [called |-> "none",
          res |-> Err(method_not_found_error(request.id, request.method))]

\* handle_request, second half: the one message written for response_result
response_message(request, rr) ==
    IF rr.ok THEN GenericResponseToValue(GenericResponse(request.id, rr.val))
    ELSE GenericErrorResponseToValue(rr.err)

(***************************************************************************)
(* server.rs: handle_notification.  It returns Ok(()) on every path and    *)
(* never uses the output stream; `called` names the handler invoked.       *)
(***************************************************************************)
handle_notification(notification) ==
    IF notification.method = "initialized" THEN
        IF notification.params.some THEN
            IF InitializedNotificationParams(notification.params.val).ok
            THEN [called |-> "handle_initialized",
                  failed |-> ~ handle_initialized("params").ok]
            ELSE [called |-> "none", failed |-> TRUE]
        ELSE [called |-> "handle_initialized",
              failed |-> ~ handle_initialized("default").ok]
    ELSE IF notification.method = "$/cancelRequest" THEN
        [called |-> "none", failed |-> FALSE]
    ELSE [called |-> "none", failed |-> FALSE]

(***************************************************************************)
(* Input lines.  A line is the text of a JSON value, held as that value,   *)
(* or text that is not JSON, held as its characters: white space only      *)
(* (Blank) or not (Text).  serde_json::from_str yields the value of the    *)
(* first and fails on the others.                                          *)
(***************************************************************************)
Blank(raw) == [kind |-> "blank", raw |-> raw]

Text(raw) == [kind |-> "text", raw |-> raw]

Json(v) == [kind |-> "json", value |-> v]

\* char::is_whitespace: the code points with the White_Space property.  A
\* character is a one-character string; a character that cannot be written
\* in a string of this module is written as the token of its code point.
Whitespace ==
    { " ", "\t", "\n", "\f", "\r", "U+000B", "U+0085", "U+00A0", "U+1680",
      "U+2000", "U+2001", "U+2002", "U+2003", "U+2004", "U+2005", "U+2006",
      "U+2007", "U+2008", "U+2009", "U+200A", "U+2028", "U+2029", "U+202F",
      "U+205F", "U+3000" }

RECURSIVE trim_start(_)
trim_start(chars) ==
    IF chars # <<>> /\ Head(chars) \in Whitespace THEN trim_start(Tail(chars)) ELSE chars

RECURSIVE trim_end(_)
trim_end(chars) ==
    IF chars # <<>> /\ chars[Len(chars)] \in Whitespace
    THEN trim_end(SubSeq(chars, 1, Len(chars) - 1))
    ELSE chars

trim(chars) == trim_end(trim_start(chars))

\* mutation: only a line of no characters at all counts as empty
is_empty_after_trim_untrimmed(line) == line.kind # "json" /\ line.raw = <<>>

\* line.trim().is_empty(); a line that is not the text of a JSON value holds
\* its characters, and the text of a JSON value is never empty
is_empty_after_trim(line) == line.kind # "json" /\ trim(line.raw) = <<>>

from_str(line) ==
    IF line.kind = "json" THEN Ok(line.value) ELSE Err(JStr("expected value"))

V2 == "jsonrpc" :> JStr("2.0")

Req(id, method) == Json(JObj(V2 @@ "id" :> id @@ "method" :> JStr(method)))

ReqP(id, method, params) ==
    Json(JObj(V2 @@ "id" :> id @@ "method" :> JStr(method) @@ "params" :> params))

Notif(method) == Json(JObj(V2 @@ "method" :> JStr(method)))

NotifP(method, params) == Json(JObj(V2 @@ "method" :> JStr(method) @@ "params" :> params))

ClientInfo == JObj("name" :> JStr("client") @@ "version" :> JStr("1"))

InitParams(version) ==
    JObj("protocolVersion" :> version @@ "capabilities" :> EmptyObj
         @@ "clientInfo" :> ClientInfo)

CallParams(name) == JObj("name" :> name @@ "arguments" :> EmptyObj)

InitializeParamsValues ==
    { InitParams(JStr(SUPPORTED_PROTOCOL_VERSION)),
      InitParams(JStr("1999-01-01")),
      JArr(<<JStr("1999-01-01"), JArr(<<>>), JArr(<<JStr("client"), JStr("1")>>)>>),
      InitParams(JNum(1)),
      JObj("protocolVersion" :> JStr(SUPPORTED_PROTOCOL_VERSION) @@ "capabilities" :> EmptyObj),
      JObj("protocolVersion" :> JStr(SUPPORTED_PROTOCOL_VERSION) @@ "capabilities" :> JStr("x")
           @@ "clientInfo" :> ClientInfo),
      JStr("x"),
      JNull }

CallParamsValues ==
    { CallParams(JStr("dummy_tool_from_rust")),
      CallParams(JStr("unknown_tool")),
      JArr(<<JStr("unknown_tool"), JNull>>),
      CallParams(JNum(7)),
      JObj("name" :> JStr("dummy_tool_from_rust")),
      JArr(<<>>),
      JNull }

Ids == { JNum(1), JNum(2), JStr("a"), JNull }

RequestLines ==
    { ReqP(JNum(1), "initialize", p) : p \in InitializeParamsValues }
    \cup { ReqP(JNum(1), "tools/call", p) : p \in CallParamsValues }
    \cup { Req(JNum(1), m) : m \in {"initialize", "tools/list", "resources/list",
                                    "prompts/list", "tools/call", "frobnicate",
                                    "initialized"} }
    \cup { ReqP(JNum(1), m, JStr("x")) : m \in {"tools/list", "frobnicate"} }
    \cup { Req(id, m) : id \in {JStr("a"), JNull}, m \in {"tools/list", "frobnicate"} }
    \cup { Req(JNum(2), "tools/list"),
           ReqP(JStr("a"), "initialize", InitParams(JStr(SUPPORTED_PROTOCOL_VERSION))),
           Json(JObj("jsonrpc" :> JStr("1.0") @@ "id" :> JNum(1)
                     @@ "method" :> JStr("tools/list"))) }

\* JSON with a top-level id that does not decode into GenericRequest
UndecodableRequestLines ==
    { Json(JObj(V2 @@ "id" :> id)) : id \in {JNum(1), JStr("a"), JNull} }
    \cup { Json(JObj(V2 @@ "id" :> JNum(2) @@ "method" :> JNum(5))),
           Json(JObj("id" :> JNum(1) @@ "method" :> JStr("tools/list"))),
           Json(JObj("jsonrpc" :> JNum(2) @@ "id" :> JNum(1) @@ "method" :> JStr("tools/list"))) }

NotificationLines ==
    { Notif(m) : m \in {"initialized", "$/cancelRequest", "frobnicate"} }
    \cup { NotifP("initialized", p) : p \in {EmptyObj, JStr("x"), JNull, JArr(<<JNum(1)>>)} }
    \cup { NotifP("$/cancelRequest", JObj("id" :> JNum(1))),
           NotifP("tools/call", CallParams(JStr("dummy_tool_from_rust"))),
           Json(JObj("jsonrpc" :> JStr("1.0") @@ "method" :> JStr("initialized"))) }

\* JSON with a top-level method, no id, that does not decode into
\* GenericNotification
UndecodableNotificationLines ==
    { Json(JObj(V2 @@ "method" :> JNum(5))),
      Json(JObj("method" :> JStr("initialized"))) }

\* JSON with neither a top-level id nor a top-level method
InvalidLines ==
    { Json(EmptyObj), Json(JObj(V2 @@ "params" :> EmptyObj)),
      Json(JArr(<<JStr("id"), JStr("method")>>)),
      Json(JStr("id")), Json(JNum(5)), Json(JNull) }

BlankLines == { Blank(<<>>), Blank(<<" ", "\t", "\f", "U+00A0">>) }

TextLines == { Text(<<"n", "o", "t", " ", "j", "s", "o", "n">>),
               Text(<<"{", "\"", "i", "d", "\"", ":", " ", "1", ",">>) }

Lines ==
    RequestLines \cup UndecodableRequestLines \cup NotificationLines
    \cup UndecodableNotificationLines \cup InvalidLines \cup BlankLines \cup TextLines

(***************************************************************************)
(* State of a run of the server.                                           *)
(*   pc            "loop" while run is in its while-let loop, "returned"   *)
(*                 once run has returned                                   *)
(*   run_result    the value run returned: "none" while looping, then      *)
(*                 "Ok" or "Err"                                           *)
(*   stop_cause    why the loop ended                                      *)
(*   stdout        the complete lines written to the output, in order      *)
(*   nread         the number of lines the framed reader has delivered     *)
(*   last          the line of the latest iteration and what the iteration *)
(*                 did with it                                             *)
(***************************************************************************)
VARIABLES pc, run_result, stop_cause, stdout, nread, last

vars == <<pc, run_result, stop_cause, stdout, nread, last>>

\* mutation: the method key is looked up before the id key
Classify_MethodFirst(line) ==
    IF is_empty_after_trim(line) THEN "skip"
    ELSE IF from_str(line).ok THEN
        LET value == from_str(line).val IN
        IF Has(value, "method") THEN
            IF GenericNotification(value).ok THEN "notification"
            ELSE "notification_decode_error"
        ELSE IF Has(value, "id") THEN
            IF GenericRequest(value).ok THEN "request" ELSE "request_decode_error"
        ELSE "invalid"
    ELSE "not_json"

\* mutation: a line that is not JSON is logged like an invalid message
Classify_NotJsonIgnored(line) ==
    IF is_empty_after_trim(line) THEN "skip"
    ELSE IF from_str(line).ok THEN
        LET value == from_str(line).val IN
        IF Has(value, "id") THEN
            IF GenericRequest(value).ok THEN "request" ELSE "request_decode_error"
        ELSE IF Has(value, "method") THEN
            IF GenericNotification(value).ok THEN "notification"
            ELSE "notification_decode_error"
        ELSE "invalid"
    ELSE "invalid"

\* server.rs run, lines 44-95: the arm of the loop body a line takes
\* mutation: JSON with neither id nor method is treated as unparseable
Classify_InvalidIsNotJson(line) ==
    IF is_empty_after_trim(line) THEN "skip"
    ELSE IF from_str(line).ok THEN
        LET value == from_str(line).val IN
        IF Has(value, "id") THEN
            IF GenericRequest(value).ok THEN "request" ELSE "request_decode_error"
        ELSE IF Has(value, "method") THEN
            IF GenericNotification(value).ok THEN "notification"
            ELSE "notification_decode_error"
        ELSE "not_json"
    ELSE "not_json"

Classify(line) ==
    IF is_empty_after_trim(line) THEN "skip"
    ELSE IF from_str(line).ok THEN
        LET value == from_str(line).val IN
        IF Has(value, "id") THEN
            IF GenericRequest(value).ok THEN "request" ELSE "request_decode_error"
        ELSE IF Has(value, "method") THEN
            IF GenericNotification(value).ok THEN "notification"
            ELSE "notification_decode_error"
        ELSE "invalid"
    ELSE "not_json"

\* the lines that take each arm
Arm == [path \in {"skip", "request", "request_decode_error", "notification",
                  "notification_decode_error", "invalid", "not_json"}
        |-> {line \in Lines : Classify(line) = path}]

\* what one iteration did: the line, the arm taken, the handler invoked,
\* the number of calls of write_message_newline,
\* whether the stream accepted every write, and the length of the output
\* when the line was read; and, as history of the run, how many of the lines
\* handled so far were not JSON and how many were JSON with a top-level id
Handled(path) == path \notin {"start", "read"}

Iteration(line, path, called, attempts, io_ok) ==
    [line |-> line, path |-> path, called |-> called,
     attempts |-> attempts, io_ok |-> io_ok, before |-> Len(stdout),
     n_not_json |-> last.n_not_json
                    + (IF Handled(path) /\ ~ is_empty_after_trim(line)
                          /\ ~ from_str(line).ok
                       THEN 1 ELSE 0),
     n_with_id |-> last.n_with_id
                   + (IF Handled(path) /\ line.kind = "json" /\ Has(line.value, "id")
                      THEN 1 ELSE 0)]

Init ==
    /\ pc = "loop"
    /\ run_result = "none"
    /\ stop_cause = "none"
    /\ stdout = <<>>
    /\ nread = 0
    /\ last = [line |-> Blank(<<>>), path |-> "start", called |-> "none",
               attempts |-> 0, io_ok |-> TRUE, before |-> 0,
               n_not_json |-> 0, n_with_id |-> 0]

\* the loop goes on to the next framed_reader.next()
Continue ==
    /\ nread' = nread + 1
    /\ UNCHANGED <<pc, run_result, stop_cause>>

\* the loop or run ends with the given result
Stop(result, cause) ==
    /\ nread' = nread + 1
    /\ pc' = "returned"
    /\ run_result' = result
    /\ stop_cause' = cause

\* run, lines 44-47: an empty line is skipped
SkipEmptyLineOn(line) ==
    /\ pc = "loop" /\ nread < MaxLines
    /\ last' = Iteration(line, "skip", "none", 0, TRUE)
    /\ UNCHANGED stdout
    /\ Continue

SkipEmptyLine == \E line \in Arm["skip"] : SkipEmptyLineOn(line)

\* mutation: before an initialize request has been answered with success,
\* every other method is refused
HandleRequestOn_RequiresInitialize(line) ==
    \E io_ok \in BOOLEAN :
        /\ pc = "loop" /\ nread < MaxLines
        /\ \E request \in {GenericRequest(from_str(line).val).val} :
           \E initialized \in {\E i \in 1..Len(stdout) :
                                   /\ Has(stdout[i], "result")
                                   /\ Has(Get(stdout[i], "result"), "protocolVersion")} :
           \E d \in {IF request.method = "initialize" \/ initialized
                     THEN response_result(request, ServerState)
                     ELSE [called |-> "none",
                           res |-> Err(create_error_response(request.id, -32002,
                                                             JStr("Server not initialized")))]} :
           \E w \in {write_message_newline(stdout, response_message(request, d.res), io_ok)} :
              /\ last' = Iteration(line, "request", d.called, 1, io_ok)
              /\ IF w.ok
                 THEN stdout' = w.val /\ Continue
                 ELSE UNCHANGED stdout /\ Stop("Err", "write_error")

\* run, lines 52-57 and handle_request: a decoded request is dispatched and
\* its response written; a failed write makes handle_request, and by `?` run,
\* return Err; request, d and w are each computed once and named
HandleRequestOn(line) ==
    \E io_ok \in BOOLEAN :
        /\ pc = "loop" /\ nread < MaxLines
        /\ \E request \in {GenericRequest(from_str(line).val).val} :
           \E d \in {response_result(request, ServerState)} :
           \E w \in {write_message_newline(stdout, response_message(request, d.res), io_ok)} :
              /\ last' = Iteration(line, "request", d.called, 1, io_ok)
              /\ IF w.ok
                 THEN stdout' = w.val /\ Continue
                 ELSE UNCHANGED stdout /\ Stop("Err", "write_error")

HandleRequest == \E line \in Arm["request"] : HandleRequestOn(line)

\* mutation: a line with an id that does not decode into GenericRequest is
\* logged only, as an undecodable notification is
RequestDecodeErrorOn_LogOnly(line) ==
    /\ pc = "loop" /\ nread < MaxLines
    /\ last' = Iteration(line, "request_decode_error", "none", 0, TRUE)
    /\ UNCHANGED stdout
    /\ Continue

\* run, lines 58-67: a line with an id that does not decode into
\* GenericRequest is answered with handlers::parse_error carrying the id
\* read again from the line; a failed write breaks the loop
RequestDecodeErrorOn(line) ==
    \E io_ok \in BOOLEAN :
        /\ pc = "loop" /\ nread < MaxLines
        /\ LET e == GenericRequest(from_str(line).val).err
               id == IF from_str(line).ok /\ Has(from_str(line).val, "id")
                     THEN Get(from_str(line).val, "id") ELSE JNull
               err_resp == parse_error(Some(id), e)
               w == write_message_newline(stdout, GenericErrorResponseToValue(err_resp), io_ok)
           IN /\ last' = Iteration(line, "request_decode_error", "none", 1, io_ok)
              /\ IF w.ok
                 THEN stdout' = w.val /\ Continue
                 ELSE UNCHANGED stdout /\ Stop("Ok", "write_error")

RequestDecodeError == \E line \in Arm["request_decode_error"] : RequestDecodeErrorOn(line)

\* mutation: a notification whose handling fails is answered with an
\* internal error without id
HandleNotification_Responds ==
    \E line \in Arm["notification"] :
        /\ pc = "loop" /\ nread < MaxLines
        /\ LET n == handle_notification(GenericNotification(from_str(line).val).val)
               err_resp == create_error_response(JNull, -32603, JStr("Internal error"))
           IN /\ last' = Iteration(line, "notification", n.called,
                                   IF n.failed THEN 1 ELSE 0, TRUE)
              /\ stdout' = IF n.failed
                           THEN Append(stdout, GenericErrorResponseToValue(err_resp))
                           ELSE stdout
        /\ Continue

\* run, lines 69-74 and handle_notification: nothing is written
HandleNotificationOn(line) ==
    /\ pc = "loop" /\ nread < MaxLines
    /\ LET n == handle_notification(GenericNotification(from_str(line).val).val)
       IN last' = Iteration(line, "notification", n.called, 0, TRUE)
    /\ UNCHANGED stdout
    /\ Continue

HandleNotification == \E line \in Arm["notification"] : HandleNotificationOn(line)

\* mutation: a notification that does not decode is answered with a parse
\* error without id
NotificationDecodeErrorOn_Answers(line) ==
    /\ pc = "loop" /\ nread < MaxLines
    /\ last' = Iteration(line, "notification_decode_error", "none", 1, TRUE)
    /\ stdout' = Append(stdout, GenericErrorResponseToValue(
                                    parse_error(None, JStr("Invalid notification"))))
    /\ Continue

\* run, lines 75-80: the failure is logged only
NotificationDecodeErrorOn(line) ==
    /\ pc = "loop" /\ nread < MaxLines
    /\ last' = Iteration(line, "notification_decode_error", "none", 0, TRUE)
    /\ UNCHANGED stdout
    /\ Continue

NotificationDecodeError == \E line \in Arm["notification_decode_error"] : NotificationDecodeErrorOn(line)

\* mutation: a message with neither id nor method ends the loop
InvalidMessage_Breaks ==
    \E line \in Arm["invalid"] :
        /\ pc = "loop" /\ nread < MaxLines
        /\ last' = Iteration(line, "invalid", "none", 0, TRUE)
        /\ UNCHANGED stdout
        /\ Stop("Ok", "invalid_message")

\* run, lines 82-86: neither id nor method, logged only
InvalidMessageOn(line) ==
    /\ pc = "loop" /\ nread < MaxLines
    /\ last' = Iteration(line, "invalid", "none", 0, TRUE)
    /\ UNCHANGED stdout
    /\ Continue

InvalidMessage == \E line \in Arm["invalid"] : InvalidMessageOn(line)

\* mutation: a failed write of the parse error is logged and the loop goes on
InvalidJsonOn_ContinuesAfterFailure(line) ==
    \E io_ok \in BOOLEAN :
        /\ pc = "loop" /\ nread < MaxLines
        /\ LET err_resp == parse_error(None, JStr("Invalid JSON received"))
               w == write_message_newline(stdout, GenericErrorResponseToValue(err_resp), io_ok)
           IN /\ last' = Iteration(line, "not_json", "none", 1, io_ok)
              /\ stdout' = IF w.ok THEN w.val ELSE stdout
              /\ Continue

\* run, lines 87-95: the line is not JSON; a parse error without id is
\* written and a failed write breaks the loop
InvalidJsonOn(line) ==
    \E io_ok \in BOOLEAN :
        /\ pc = "loop" /\ nread < MaxLines
        /\ LET err_resp == parse_error(None, JStr("Invalid JSON received"))
               w == write_message_newline(stdout, GenericErrorResponseToValue(err_resp), io_ok)
           IN /\ last' = Iteration(line, "not_json", "none", 1, io_ok)
              /\ IF w.ok
                 THEN stdout' = w.val /\ Continue
                 ELSE UNCHANGED stdout /\ Stop("Ok", "write_error")

InvalidJson == \E line \in Arm["not_json"] : InvalidJsonOn(line)

\* run, lines 97-100: the reader yields Err, the loop breaks
ReadError ==
    /\ pc = "loop"
    /\ pc' = "returned"
    /\ run_result' = "Ok"
    /\ stop_cause' = "read_error"
    /\ UNCHANGED <<stdout, nread, last>>

\* mutation: the end of the input is noted but the loop is not left
EndOfInput_KeepsWaiting ==
    /\ pc = "loop"
    /\ stop_cause' = "eof"
    /\ UNCHANGED <<pc, run_result, stdout, nread, last>>

\* run, line 40 and 104-105: the reader yields None at end of input
EndOfInput ==
    /\ pc = "loop"
    /\ pc' = "returned"
    /\ run_result' = "Ok"
    /\ stop_cause' = "eof"
    /\ UNCHANGED <<stdout, nread, last>>

Next ==
    \/ SkipEmptyLine
    \/ HandleRequest
    \/ RequestDecodeError
    \/ HandleNotification
    \/ NotificationDecodeError
    \/ InvalidMessage
    \/ InvalidJson
    \/ ReadError
    \/ EndOfInput

Spec == Init /\ [][Next]_vars

(***************************************************************************)
(* Vocabulary of the properties.                                           *)
(***************************************************************************)
RegisteredMethods == {"initialize", "tools/list", "resources/list", "prompts/list",
                      "tools/call"}

\* the line of the latest iteration is JSON with a top-level id
LineHasId == last.line.kind = "json" /\ Has(last.line.value, "id")

\* ... and it decodes into the Request shape
LineIsRequest == LineHasId /\ GenericRequest(last.line.value).ok

LineRequest == GenericRequest(last.line.value).val

\* the line is JSON with a top-level method and no top-level id
LineIsNotification ==
    /\ last.line.kind = "json"
    /\ ~ Has(last.line.value, "id")
    /\ Has(last.line.value, "method")

\* lines written by the latest iteration
Written == Len(stdout) - last.before

WriteFailed == ~ last.io_ok

LastOut == stdout[Len(stdout)]

IsSuccessResponse(o) == Has(o, "result") /\ ~ Has(o, "error")

IsErrorResponse(o) == Has(o, "error") /\ ~ Has(o, "result")

ErrorCode(o) == Get(Get(o, "error"), "code").n

\* C1: a line that is JSON, has a top-level id and decodes into the Request
\* shape gets exactly one write (one call of write_message_newline, one line
\* on the output when the write does not fail), and that line is either a
\* success response or an error response, never both.
C1_ExactlyOneWrite ==
    LineIsRequest =>
        /\ last.attempts = 1
        /\ ~ WriteFailed =>
             /\ Written = 1
             /\ IsSuccessResponse(LastOut) # IsErrorResponse(LastOut)

C1_Witness ==
    /\ LineIsRequest
    /\ Len(stdout) = 2 /\ last.before = 1
    /\ IsErrorResponse(stdout[1])
    /\ IsSuccessResponse(stdout[2])

\* C2: every response written for a decoded Request, success or error,
\* carries the id of the request, for number, string and null ids and every
\* method.
C2_IdEchoed ==
    (LineIsRequest /\ Written > 0) =>
        /\ Has(LastOut, "id")
        /\ Get(LastOut, "id") = Get(last.line.value, "id")

C2_Witness ==
    /\ LineIsRequest /\ Written = 1
    /\ Get(last.line.value, "id") = JStr("a")
    /\ IsErrorResponse(LastOut)
    /\ Get(LastOut, "id") = JStr("a")
    /\ Len(stdout) = 2
    /\ Get(stdout[1], "id") = JNum(1)
    /\ IsErrorResponse(stdout[1]) /\ ErrorCode(stdout[1]) = -32602

\* C3: an iteration on a Notification line (top-level method, no top-level
\* id) calls the writer zero times, leaves the output unchanged and leaves
\* the loop running, whatever the method, the params, the handler's result
\* or the outcome of decoding the notification.
C3_NotificationSilent ==
    [][ (nread' = nread + 1 /\ last'.line.kind = "json"
         /\ ~ Has(last'.line.value, "id") /\ Has(last'.line.value, "method"))
        => (stdout' = stdout /\ last'.attempts = 0 /\ pc' = "loop"
            /\ run_result' = "none") ]_vars

C3_Witness ==
    /\ LineIsNotification /\ last.path = "notification"
    /\ handle_notification(GenericNotification(last.line.value).val).failed
    /\ nread = 2 /\ pc = "loop" /\ Len(stdout) = 1

\* C4: a decoded Request whose method is not registered is answered with an
\* error of code -32601 carrying the request's id, whatever its params.
C4_MethodNotFound ==
    (LineIsRequest /\ LineRequest.method \notin RegisteredMethods /\ ~ WriteFailed) =>
        /\ Written = 1
        /\ IsErrorResponse(LastOut)
        /\ ErrorCode(LastOut) = -32601
        /\ Get(LastOut, "id") = LineRequest.id
        /\ last.called = "none"

C4_Witness ==
    /\ LineIsRequest /\ Written = 1
    /\ LineRequest.method = "frobnicate"
    /\ LineRequest.params = Some(JStr("x"))
    /\ IsErrorResponse(LastOut) /\ ErrorCode(LastOut) = -32601

\* the params of the request fail the structural validation of its method
ParamsRejected(request) ==
    \/ ~ request.params.some
    \/ request.method = "initialize" /\ ~ InitializeRequestParams(request.params.val).ok
    \/ request.method = "tools/call" /\ ~ CallToolRequestParams(request.params.val).ok

\* C5: a decoded Request for initialize or tools/call whose params are
\* absent or fail the structural validation is answered with an error of
\* code -32602 carrying the request's id, and no handler is invoked.
C5_InvalidParams ==
    (LineIsRequest /\ LineRequest.method \in {"initialize", "tools/call"}
     /\ ParamsRejected(LineRequest)) =>
        /\ last.called = "none"
        /\ ~ WriteFailed =>
             /\ Written = 1
             /\ IsErrorResponse(LastOut)
             /\ ErrorCode(LastOut) = -32602
             /\ Get(LastOut, "id") = LineRequest.id

C5_Witness ==
    /\ LineIsRequest /\ Written = 1
    /\ LineRequest.method = "tools/call"
    /\ LineRequest.params.some
    /\ ~ CallToolRequestParams(LineRequest.params.val).ok
    /\ IsErrorResponse(LastOut) /\ ErrorCode(LastOut) = -32602
    /\ Len(stdout) = 2
    /\ IsErrorResponse(stdout[1]) /\ ErrorCode(stdout[1]) = -32602
    /\ Get(Get(stdout[1], "error"), "message").args[1] = JStr("initialize")

\* C6: an iteration on a non-empty line that is not JSON calls the writer
\* once; the line written is an error response with id null and code
\* -32700, and the loop goes on (the loop ends only if that write fails).
C6_InvalidJsonParseError ==
    [][ (nread' = nread + 1 /\ last'.line.kind # "json"
         /\ trim(last'.line.raw) # <<>>)
        => /\ last'.attempts = 1
           /\ \/ /\ Len(stdout') = Len(stdout) + 1
                 /\ SubSeq(stdout', 1, Len(stdout)) = stdout
                 /\ IsErrorResponse(stdout'[Len(stdout')])
                 /\ Get(stdout'[Len(stdout')], "id") = JNull
                 /\ ErrorCode(stdout'[Len(stdout')]) = -32700
                 /\ pc' = "loop"
              \/ /\ stdout' = stdout
                 /\ stop_cause' = "write_error" ]_vars

C6_Witness ==
    /\ last.line = Text(<<"n", "o", "t", " ", "j", "s", "o", "n">>)
    /\ Written = 1 /\ nread = 2 /\ pc = "loop"
    /\ IsErrorResponse(LastOut)
    /\ Get(LastOut, "id") = JNull /\ ErrorCode(LastOut) = -32700
    /\ Len(stdout) = 2 /\ IsSuccessResponse(stdout[1])

\* the line is JSON with a top-level id and does not decode into the Request
\* shape
LineIsUndecodableRequest == LineHasId /\ ~ GenericRequest(last.line.value).ok

\* C7 as stated: a JSON line with a top-level id that fails to decode into
\* the Request shape is answered with an invalid-params error (-32602)
\* carrying the recovered id, not with a parse error (-32700).
C7_DecodeFailureInvalidParams ==
    (LineIsUndecodableRequest /\ Written = 1) =>
        /\ IsErrorResponse(LastOut)
        /\ ErrorCode(LastOut) = -32602
        /\ ErrorCode(LastOut) # -32700
        /\ Get(LastOut, "id") = Get(last.line.value, "id")

\* C7 amended: a JSON line with a top-level id that fails to decode into
\* the Request shape is answered with a parse error (-32700) carrying the
\* recovered id, not with an invalid-params error (-32602).
C7_DecodeFailureParseError ==
    (LineIsUndecodableRequest /\ ~ WriteFailed) =>
        /\ Written = 1
        /\ IsErrorResponse(LastOut)
        /\ ErrorCode(LastOut) = -32700
        /\ ErrorCode(LastOut) # -32602
        /\ Get(LastOut, "id") = Get(last.line.value, "id")

C7_Witness ==
    /\ LineIsUndecodableRequest /\ Written = 1
    /\ Get(last.line.value, "id") = JStr("a")
    /\ ~ Has(last.line.value, "method")
    /\ IsErrorResponse(LastOut) /\ ErrorCode(LastOut) = -32700
    /\ Get(LastOut, "id") = JStr("a")

\* C8: a JSON line with a top-level id is handled on the request path and
\* answered, with or without a method; the notification path is taken only
\* by lines that have a method and no id.
C8_IdPriority ==
    /\ LineHasId =>
         /\ last.path \in {"request", "request_decode_error"}
         /\ last.attempts = 1
         /\ ~ WriteFailed => Written = 1
    /\ last.path \in {"notification", "notification_decode_error"} => LineIsNotification

C8_Witness ==
    /\ LineHasId /\ Has(last.line.value, "method")
    /\ Get(last.line.value, "method") = JStr("initialized")
    /\ last.path = "request" /\ Written = 1
    /\ Len(stdout) = 2
    /\ IsErrorResponse(stdout[1]) /\ ErrorCode(stdout[1]) = -32700
    /\ Get(stdout[1], "id") = JNum(1)

\* C10: the loop ends only at end of input, on a read error or on a failed
\* write: a step that leaves the loop either consumed no line (end of input,
\* read error) or made a write that put nothing on the output; every other
\* iteration, whatever went wrong with its message, leaves the loop running.
C10_ErrorsContained ==
    [][ (pc = "loop" /\ pc' = "returned")
        => \/ nread' = nread /\ stop_cause' \in {"eof", "read_error"}
           \/ /\ nread' = nread + 1
              /\ last'.attempts = 1 /\ stdout' = stdout
              /\ stop_cause' = "write_error" ]_vars

C10_Witness ==
    /\ pc = "loop" /\ nread = 2
    /\ last.path = "notification"
    /\ handle_notification(GenericNotification(last.line.value).val).failed
    /\ Len(stdout) = 1 /\ last.before = 1
    /\ IsErrorResponse(stdout[1]) /\ ErrorCode(stdout[1]) = -32602

(***************************************************************************)
(* main.rs: the process exit status.  main exits with 1 when run returns   *)
(* Err and returns Ok(()), status 0, when run returns Ok.                  *)
(***************************************************************************)
main(result) == IF result = "Err" THEN 1 ELSE 0

\* C11: every transport failure that ends the loop (a read error, a failed
\* write of a response, a failed write of a parse-error response) makes run
\* return Err and the process exit with a non-zero status.
C11_TransportFatalNonZeroExit ==
    (pc = "returned" /\ (stop_cause = "read_error" \/ WriteFailed)) =>
        /\ run_result = "Err"
        /\ main(run_result) # 0

\* the id the line carries, null when the line is not JSON
RecoveredId == IF LineHasId THEN Get(last.line.value, "id") ELSE JNull

\* C12: a written response has id null only when the line was not valid
\* JSON; the response to every other line carries the non-null id of the
\* line.
C12_NullIdOnlyUnparseable ==
    Written = 1 =>
        IF last.line.kind # "json"
        THEN Get(LastOut, "id") = JNull
        ELSE Get(LastOut, "id") # JNull /\ Get(LastOut, "id") = RecoveredId

(***************************************************************************)
(* The loop at a finer grain, for progress properties: framed_reader.next  *)
(* delivering a line (server.rs:40) is one step and the body of the loop   *)
(* run on that line (server.rs:42-96) is the next.  A delivered line is    *)
(* held in `last` with path "read" until its arm has run.                  *)
(***************************************************************************)
Pending == last.path = "read"

ReadLine ==
    \E line \in Lines :
        /\ pc = "loop" /\ nread < MaxLines
        /\ ~ Pending
        /\ last' = Iteration(line, "read", "none", 0, TRUE)
        /\ UNCHANGED <<pc, run_result, stop_cause, stdout, nread>>

DispatchSkipEmptyLine == Pending /\ last.line \in Arm["skip"] /\ SkipEmptyLineOn(last.line)

DispatchRequest == Pending /\ last.line \in Arm["request"] /\ HandleRequestOn(last.line)

DispatchRequestDecodeError == Pending /\ last.line \in Arm["request_decode_error"] /\ RequestDecodeErrorOn(last.line)

DispatchNotification == Pending /\ last.line \in Arm["notification"] /\ HandleNotificationOn(last.line)

DispatchNotificationDecodeError ==
    Pending /\ last.line \in Arm["notification_decode_error"] /\ NotificationDecodeErrorOn(last.line)

DispatchInvalidMessage == Pending /\ last.line \in Arm["invalid"] /\ InvalidMessageOn(last.line)

DispatchInvalidJson == Pending /\ last.line \in Arm["not_json"] /\ InvalidJsonOn(last.line)

\* the reader is polled only at the top of the loop
PollReadError == ~ Pending /\ ReadError

PollEndOfInput == ~ Pending /\ EndOfInput

\* the arms that never call write_message_newline
DispatchSilent ==
    \/ DispatchSkipEmptyLine
    \/ DispatchNotification
    \/ DispatchNotificationDecodeError
    \/ DispatchInvalidMessage

\* the arms that end with a call of write_message_newline
DispatchWrite ==
    \/ DispatchRequest
    \/ DispatchRequestDecodeError
    \/ DispatchInvalidJson

NextLive ==
    \/ ReadLine
    \/ DispatchSkipEmptyLine
    \/ DispatchRequest
    \/ DispatchRequestDecodeError
    \/ DispatchNotification
    \/ DispatchNotificationDecodeError
    \/ DispatchInvalidMessage
    \/ DispatchInvalidJson
    \/ PollReadError
    \/ PollEndOfInput

\* once a line is delivered, an arm that writes nothing runs to its end
\* (handlers return).  An arm that writes waits in write_all or flush
\* (stdio.rs:12-14) until the stream has taken the bytes or reports an
\* error: while the peer does not read a full pipe the arm does not end, so
\* nothing makes its step happen.
SpecLive == Init /\ [][NextLive]_vars /\ WF_vars(DispatchSilent)

\* the output stream takes the bytes of every write or reports an error, so
\* that write_message_newline returns
WriteReturns == WF_vars(DispatchWrite)

WellFormedResponse(o) ==
    /\ Has(o, "jsonrpc") /\ Get(o, "jsonrpc") = JStr("2.0")
    /\ Has(o, "id")
    /\ IsSuccessResponse(o) # IsErrorResponse(o)

\* C13, as stated: every delivered line with a top-level id is eventually
\* answered with one well-formed success or error response carrying its id,
\* unless the write fails; and the step that runs the arm of a Notification
\* line leaves the output unchanged.
C13_RequestEventuallyAnswered ==
    /\ (Pending /\ LineHasId)
         ~> (/\ ~ Pending
             /\ LineHasId
             /\ \/ WriteFailed
                \/ /\ Written = 1
                   /\ WellFormedResponse(LastOut)
                   /\ Get(LastOut, "id") = RecoveredId)
    /\ [][ (Pending /\ LineIsNotification /\ last' # last) => stdout' = stdout ]_vars

\* C13, amended: when every write returns (the output stream takes the bytes
\* or reports an error), every delivered line with a top-level id is
\* eventually answered with one well-formed success or error response
\* carrying its id, unless the write fails; and the step that runs the arm
\* of a Notification line leaves the output unchanged.
C13_AnsweredWhenWriteReturns ==
    /\ WriteReturns =>
          ((Pending /\ LineHasId)
             ~> (/\ ~ Pending
                 /\ LineHasId
                 /\ \/ WriteFailed
                    \/ /\ Written = 1
                       /\ WellFormedResponse(LastOut)
                       /\ Get(LastOut, "id") = RecoveredId))
    /\ [][ (Pending /\ LineIsNotification /\ last' # last) => stdout' = stdout ]_vars

C13_Witness ==
    /\ ~ Pending /\ LineHasId
    /\ last.path = "request_decode_error"
    /\ Written = 1 /\ WellFormedResponse(LastOut)
    /\ Len(stdout) = 2 /\ nread = 2
    /\ IsSuccessResponse(stdout[1])

\* C14: a tools/call request whose params pass the structural validation is
\* answered with a success response, whose result has isError true when the
\* tool is not the one the server implements; an error response to
\* tools/call comes only with rejected params (handle_call_tool returns Ok
\* for every tool name).
C14_UnknownToolIsResult ==
    (LineIsRequest /\ LineRequest.method = "tools/call" /\ Written = 1) =>
        /\ ~ ParamsRejected(LineRequest) =>
             /\ IsSuccessResponse(LastOut)
             /\ CallToolRequestParams(LineRequest.params.val).val.name # "dummy_tool_from_rust"
                  => /\ Has(Get(LastOut, "result"), "isError")
                     /\ Get(Get(LastOut, "result"), "isError") = JBool(TRUE)
        /\ IsErrorResponse(LastOut) => ParamsRejected(LineRequest)

C14_Witness ==
    /\ LineIsRequest /\ LineRequest.method = "tools/call" /\ Written = 1
    /\ ~ ParamsRejected(LineRequest)
    /\ CallToolRequestParams(LineRequest.params.val).val.name = "unknown_tool"
    /\ IsSuccessResponse(LastOut)
    /\ Get(Get(LastOut, "result"), "isError") = JBool(TRUE)

\* C15: an initialize request whose params pass the structural validation
\* is answered, for every protocol version the client asks for, with a
\* success response whose protocolVersion is the server's own constant.
C15_InitializeOwnVersion ==
    (LineIsRequest /\ LineRequest.method = "initialize"
     /\ ~ ParamsRejected(LineRequest) /\ Written = 1) =>
        /\ IsSuccessResponse(LastOut)
        /\ Get(Get(LastOut, "result"), "protocolVersion") = JStr(SUPPORTED_PROTOCOL_VERSION)

C15_Witness ==
    /\ LineIsRequest /\ LineRequest.method = "initialize" /\ Written = 1
    /\ ~ ParamsRejected(LineRequest)
    /\ InitializeRequestParams(LineRequest.params.val).val.protocol_version = "1999-01-01"
    /\ IsSuccessResponse(LastOut)
    /\ Get(Get(LastOut, "result"), "protocolVersion") = JStr(SUPPORTED_PROTOCOL_VERSION)

\* C16: every line on the output is an object whose top-level keys are
\* exactly jsonrpc, id, result or exactly jsonrpc, id, error, and whose
\* jsonrpc is "2.0".
C16_OutputShapes ==
    \A i \in 1..Len(stdout) :
        /\ stdout[i].t = "obj"
        /\ \/ DOMAIN stdout[i].f = {"jsonrpc", "id", "result"}
           \/ DOMAIN stdout[i].f = {"jsonrpc", "id", "error"}
        /\ Get(stdout[i], "jsonrpc") = JStr("2.0")

C16_Witness ==
    /\ Len(stdout) = 2
    /\ DOMAIN stdout[1].f = {"jsonrpc", "id", "error"}
    /\ DOMAIN stdout[2].f = {"jsonrpc", "id", "result"}
    /\ last.path = "request" /\ last.before = 1

\* C17: lines are handled one at a time.  A line is delivered only when no
\* delivered line is waiting for its arm, and delivering it writes nothing;
\* the output changes only in the step that runs the arm of the delivered
\* line, and then by exactly one line appended after everything written
\* before, carrying the id of that line (null when it has none).  So the
\* ids on the output follow the order of the answered input lines.
C17_OneAtATimeInOrder ==
    [][ /\ (last'.path = "read") => (~ Pending /\ stdout' = stdout /\ nread' = nread)
        /\ (stdout' # stdout) =>
             /\ Pending /\ ~ Pending'
             /\ last'.line = last.line
             /\ nread' = nread + 1
             /\ Len(stdout') = Len(stdout) + 1
             /\ SubSeq(stdout', 1, Len(stdout)) = stdout
             /\ Get(stdout'[Len(stdout')], "id") = RecoveredId ]_vars

C17_Witness ==
    /\ ~ Pending /\ nread = 2 /\ Len(stdout) = 2
    /\ last.path = "request" /\ Get(last.line.value, "id") = JNum(1)
    /\ Get(stdout[1], "id") = JNum(2)
    /\ Get(stdout[2], "id") = JNum(1)

\* what a run writes for a line, as a function of the line alone
Answer(line) ==
    IF line \in Arm["request"] THEN
        LET request == GenericRequest(from_str(line).val).val
        IN << response_message(request, response_result(request, ServerState).res) >>
    ELSE IF line \in Arm["request_decode_error"] THEN
        << GenericErrorResponseToValue(
               parse_error(Some(Get(from_str(line).val, "id")),
                           GenericRequest(from_str(line).val).err)) >>
    ELSE IF line \in Arm["not_json"] THEN
        << GenericErrorResponseToValue(parse_error(None, JStr("Invalid JSON received"))) >>
    ELSE << >>

\* C18: the arm a line takes, the number of writes and the lines written for
\* it are those the line determines on its own, whatever was read before;
\* and a line that follows an identical line takes the same arm, invokes the
\* same handler and is answered with the same line.
C18_StatelessPerMessage ==
    /\ [](last.path # "start" =>
            /\ last.line \in Arm[last.path]
            /\ last.attempts = Len(Answer(last.line))
            /\ ~ WriteFailed =>
                 SubSeq(stdout, last.before + 1, Len(stdout)) = Answer(last.line))
    /\ [][ (nread' = nread + 1 /\ nread > 0 /\ last'.line = last.line) =>
             /\ last'.path = last.path
             /\ last'.called = last.called
             /\ (~ WriteFailed') =>
                  SubSeq(stdout', Len(stdout) + 1, Len(stdout')) =
                      SubSeq(stdout, last.before + 1, Len(stdout)) ]_vars

C18_Witness ==
    /\ nread = 2 /\ Len(stdout) = 2 /\ last.before = 1
    /\ last.line = Req(JNum(1), "tools/list")
    /\ IsSuccessResponse(stdout[1])
    /\ Has(Get(stdout[1], "result"), "tools")
    /\ stdout[2] = stdout[1]

\* C19: the iteration on a line that is empty after trimming whitespace
\* calls the writer zero times, leaves the output unchanged and leaves the
\* loop running for the next line.
C19_EmptyLineSkipped ==
    [][ (nread' = nread + 1 /\ last'.line.kind # "json"
         /\ trim(last'.line.raw) = <<>>)
        => (stdout' = stdout /\ last'.attempts = 0 /\ last'.path = "skip"
            /\ pc' = "loop" /\ run_result' = "none") ]_vars

C19_Witness ==
    /\ last.line = Blank(<<" ", "\t", "\f", "U+00A0">>)
    /\ last.path = "skip" /\ last.attempts = 0
    /\ nread = 2 /\ Len(stdout) = 1 /\ last.before = 1 /\ pc = "loop"

\* C20: the iteration on a line that is JSON with neither a top-level id
\* nor a top-level method (an object without them, an array, a string, a
\* number, null) calls the writer zero times, leaves the output unchanged
\* and leaves the loop running for the next line.
C20_InvalidMessageSilent ==
    [][ (nread' = nread + 1 /\ last'.line.kind = "json"
         /\ ~ Has(last'.line.value, "id") /\ ~ Has(last'.line.value, "method"))
        => (stdout' = stdout /\ last'.attempts = 0 /\ last'.path = "invalid"
            /\ pc' = "loop" /\ run_result' = "none") ]_vars

C20_Witness ==
    /\ last.line = Json(JArr(<<JStr("id"), JStr("method")>>))
    /\ last.path = "invalid" /\ last.attempts = 0
    /\ nread = 2 /\ Len(stdout) = 1 /\ last.before = 1 /\ pc = "loop"

\* C21: once a call of write_message_newline has failed, run has left its
\* loop, and from then on nothing changes: no line is read or dispatched and
\* no write is attempted.
C21_WriteFailureEndsLoop ==
    /\ [](WriteFailed => (pc = "returned" /\ stop_cause = "write_error"))
    /\ [][ ~ WriteFailed ]_vars

C21_Witness ==
    /\ WriteFailed /\ pc = "returned"
    /\ last.path = "not_json" /\ last.attempts = 1
    /\ nread = 1 /\ nread < MaxLines /\ stdout = <<>>

\* what the reader does on a finite input that ends with end of file: it
\* delivers the next line or reports the end
ReaderYields == ReadLine \/ PollEndOfInput

\* a run on a finite input: the reader yields its next item and an arm that
\* writes nothing runs to its end; an arm that writes ends only when the
\* stream lets the write return
SpecTerm == Init /\ [][NextLive]_vars /\ WF_vars(ReaderYields \/ DispatchSilent)

\* C22, as stated: on a finite input run eventually returns; it returns only
\* at end of input, on a read error or on a write error; when no read and no
\* write has failed it returns at end of input, with Ok, after the arm of
\* every delivered line has run; and nothing happens after it has returned.
C22_Termination ==
    /\ <>(pc = "returned")
    /\ [](pc = "returned" =>
            /\ stop_cause \in {"eof", "read_error", "write_error"}
            /\ ~ Pending
            /\ (~ WriteFailed /\ stop_cause # "read_error") =>
                 (stop_cause = "eof" /\ run_result = "Ok"))
    /\ [](stop_cause = "eof" => (pc = "returned" /\ ~ WriteFailed))
    /\ [][ pc = "loop" ]_vars

\* C22, amended: on a finite input run eventually returns when every write
\* returns (the output stream takes the bytes or reports an error); it
\* returns only at end of input, on a read error or on a write error; when
\* no read and no write has failed it returns at end of input, with Ok,
\* after the arm of every delivered line has run; and nothing happens after
\* it has returned.
C22_TerminationWhenWriteReturns ==
    /\ WriteReturns => <>(pc = "returned")
    /\ [](pc = "returned" =>
            /\ stop_cause \in {"eof", "read_error", "write_error"}
            /\ ~ Pending
            /\ (~ WriteFailed /\ stop_cause # "read_error") =>
                 (stop_cause = "eof" /\ run_result = "Ok"))
    /\ [](stop_cause = "eof" => (pc = "returned" /\ ~ WriteFailed))
    /\ [][ pc = "loop" ]_vars

C22_Witness ==
    /\ pc = "returned" /\ stop_cause = "eof" /\ run_result = "Ok"
    /\ nread = 2 /\ Len(stdout) = 2 /\ last.before = 1
    /\ last.path = "request" /\ ~ WriteFailed

\* C23: as long as no write has failed, the number of lines on the output
\* is the number of handled lines that were not JSON plus the number of
\* handled JSON lines with a top-level id; empty lines, notifications and
\* JSON with neither id nor method add nothing.
C23_OutputCount ==
    ~ WriteFailed => Len(stdout) = last.n_not_json + last.n_with_id

C23_Witness ==
    /\ ~ WriteFailed /\ nread = 2
    /\ last.n_not_json = 1 /\ last.n_with_id = 0
    /\ LineIsNotification /\ last.path = "notification"
    /\ Len(stdout) = 1

\* the latest line is a JSON object whose jsonrpc is a string
JsonrpcIsString ==
    /\ last.line.kind = "json" /\ last.line.value.t = "obj"
    /\ Has(last.line.value, "jsonrpc")
    /\ Get(last.line.value, "jsonrpc").t = "str"

\* the same line with "2.0" as its jsonrpc
WithJsonrpc20(line) ==
    Json(JObj([k \in DOMAIN line.value.f |->
                  IF k = "jsonrpc" THEN JStr("2.0") ELSE line.value.f[k]]))

\* the handler the run invokes for a line
Invoked(line) ==
    IF line \in Arm["request"]
    THEN response_result(GenericRequest(from_str(line).val).val, ServerState).called
    ELSE IF line \in Arm["notification"]
    THEN handle_notification(GenericNotification(from_str(line).val).val).called
    ELSE "none"

\* C24: a line with a top-level id or method whose jsonrpc is any string
\* takes the arm, invokes the handler and gets the output that the same
\* line with jsonrpc "2.0" gets; a line with a top-level id whose jsonrpc is
\* absent or not a string fails the Request decode and is answered with an
\* error of code -32700 carrying the id of the line.
C24_JsonrpcUnchecked ==
    (Handled(last.path) /\ ~ WriteFailed /\ last.line.kind = "json") =>
        /\ (JsonrpcIsString
            /\ (Has(last.line.value, "id") \/ Has(last.line.value, "method"))) =>
             /\ last.path = Classify(WithJsonrpc20(last.line))
             /\ last.called = Invoked(WithJsonrpc20(last.line))
             /\ SubSeq(stdout, last.before + 1, Len(stdout)) = Answer(WithJsonrpc20(last.line))
        /\ (LineHasId /\ ~ JsonrpcIsString) =>
             /\ last.path = "request_decode_error"
             /\ Written = 1
             /\ IsErrorResponse(LastOut)
             /\ ErrorCode(LastOut) = -32700
             /\ Get(LastOut, "id") = Get(last.line.value, "id")

C24_Witness ==
    /\ last.line = Json(JObj("jsonrpc" :> JStr("1.0") @@ "id" :> JNum(1)
                             @@ "method" :> JStr("tools/list")))
    /\ last.path = "request" /\ last.called = "handle_list_tools"
    /\ Written = 1 /\ IsSuccessResponse(LastOut)
    /\ Get(LastOut, "jsonrpc") = JStr("2.0")
    /\ nread = 2 /\ Len(stdout) = 2
    /\ IsErrorResponse(stdout[1]) /\ ErrorCode(stdout[1]) = -32700
    /\ Get(stdout[1], "id") = JNum(1)

====
